---- MODULE Spec2Model ----
(***************************************************************************)
(* Scrubbing of environment variables out of JSON-encoded bridge messages  *)
(* and process parameters before they are logged (package log, scrub.go).  *)
(*                                                                         *)
(* Messages are modelled at the level the code works on: a message is a    *)
(* sequence of bytes (one-character strings), hasKeywords is a substring   *)
(* search over those bytes, and json.Valid / json.Unmarshal / the encoder  *)
(* are a recursive-descent parser, two decoders (into a generic map and    *)
(* into the ProcessParameters struct) and a serialiser over them.          *)
(***************************************************************************)
EXTENDS Integers, Sequences, FiniteSets, TLC

VARIABLES
  _scrub,   \* the process-wide flag (int32, 0 or 1)
  op,       \* the operation of the last call ("none" before any)
  in,       \* the bytes the last call was given
  out,      \* the bytes it returned (<<>> for nil / "")
  err,      \* the error it returned ("nil" for none)
  again,    \* TRUE when the last call was given the previous call's output
  prev,     \* the output of the call before, when again
  prevSeen, \* the flag the call before read, when again
  pc,       \* "idle", "nested" (a call is at its nested call) or "returned"
  seenOuter,\* what IsScrubbingEnabled() returned to the call's first check
  seenInner \* what it returned to the nested ScrubProcessParameters

vars == <<_scrub, op, in, out, err, again, prev, prevSeen, pc, seenOuter, seenInner>>

(***************************************************************************)
(* Bytes.                                                                  *)
(***************************************************************************)
QUOTE  == "\""
BSLASH == "\\"
NL     == "\n"
TAB    == "\t"
CR     == "\r"
BS     == "BS"     \* the byte 0x08, which a TLA+ string cannot hold
FF     == "FF"     \* the byte 0x0c
UNI    == "UNI"    \* any code point outside the modelled bytes (encoded \ufffd)

\* The printable ASCII characters 0x20..0x7e, in code order ("GRAVE" stands for
\* the byte 0x60, which a TLA+ string cannot hold).
Printable ==
  <<" ", "!", "\"", "#", "$", "%", "&", "'", "(", ")", "*", "+", ",", "-", ".", "/",
     "0", "1", "2", "3", "4", "5", "6", "7", "8", "9", ":", ";", "<", "=", ">", "?",
     "@", "A", "B", "C", "D", "E", "F", "G", "H", "I", "J", "K", "L", "M", "N", "O",
     "P", "Q", "R", "S", "T", "U", "V", "W", "X", "Y", "Z", "[", "\\", "]", "^", "_",
     "GRAVE", "a", "b", "c", "d", "e", "f", "g", "h", "i", "j", "k", "l", "m", "n", "o",
     "p", "q", "r", "s", "t", "u", "v", "w", "x", "y", "z", "{", "|", "}", "~">>

PrintableIndex ==
  [c \in {Printable[i] : i \in 1..Len(Printable)} |->
     CHOOSE i \in 1..Len(Printable) : Printable[i] = c]

\* The code of a byte: its position in ASCII.
Code(c) ==
  IF c = BS THEN 8
  ELSE IF c = TAB THEN 9
  ELSE IF c = NL THEN 10
  ELSE IF c = FF THEN 12
  ELSE IF c = CR THEN 13
  ELSE IF c = UNI THEN 65533
  ELSE 31 + PrintableIndex[c]

\* The byte with code n (n a code of the modelled bytes).
Chr(n) ==
  IF n = 8 THEN BS
  ELSE IF n = 9 THEN TAB
  ELSE IF n = 10 THEN NL
  ELSE IF n = 12 THEN FF
  ELSE IF n = 13 THEN CR
  ELSE IF n >= 32 /\ n <= 126 THEN Printable[n - 31]
  ELSE UNI

Digits == <<"0", "1", "2", "3", "4", "5", "6", "7", "8", "9">>
IsDigit(c) == \E i \in 1..10 : Digits[i] = c
DigitVal(c) == (CHOOSE i \in 1..10 : Digits[i] = c) - 1

HexLower == <<"a", "b", "c", "d", "e", "f">>
HexUpper == <<"A", "B", "C", "D", "E", "F">>
IsHex(c) == IsDigit(c) \/ \E i \in 1..6 : HexLower[i] = c \/ HexUpper[i] = c
HexVal(c) ==
  IF IsDigit(c) THEN DigitVal(c)
  ELSE 9 + (CHOOSE i \in 1..6 : HexLower[i] = c \/ HexUpper[i] = c)

Slice(b, i, j) == SubSeq(b, i, j - 1)     \* b[i:j]

HasPrefixAt(b, i, w) ==
  /\ i + Len(w) - 1 <= Len(b)
  /\ \A j \in 1..Len(w) : b[i + j - 1] = w[j]

\* bytes.Contains
Contains(b, w) == \E i \in 1..(Len(b) - Len(w) + 1) : HasPrefixAt(b, i, w)

(***************************************************************************)
(* encoding/json's scanner: the syntax of a JSON text.  A node of the      *)
(* syntax tree is [t, s, a]: t its kind, s the characters of a string or   *)
(* the text of a number, a the elements of an array or the members         *)
(* [k, v] of an object, in the order written.                              *)
(***************************************************************************)
Node(t, s, a) == [t |-> t, s |-> s, a |-> a]

Fail == [ok |-> FALSE, v |-> Node("null", <<>>, <<>>), p |-> 0]

IsSpace(c) == c = " " \/ c = TAB \/ c = CR \/ c = NL

\* The first position from i on that holds no white space (Len(b) + 1 if none).
SkipWS(b, i) ==
  CHOOSE k \in i..(Len(b) + 1) :
    /\ k <= Len(b) => ~IsSpace(b[k])
    /\ \A j \in i..(k - 1) : IsSpace(b[j])

\* The first position from i on that holds no digit.
DigitsEnd(b, i) ==
  CHOOSE k \in i..(Len(b) + 1) :
    /\ k <= Len(b) => ~IsDigit(b[k])
    /\ \A j \in i..(k - 1) : IsDigit(b[j])

\* Inside a string: a quote, a backslash and a control character end a run
\* of characters that stand for themselves.
IsPlain(c) == c # QUOTE /\ c # BSLASH /\ Code(c) >= 32

PlainEnd(b, i) ==
  CHOOSE k \in i..(Len(b) + 1) :
    /\ k <= Len(b) => ~IsPlain(b[k])
    /\ \A j \in i..(k - 1) : IsPlain(b[j])

\* The character a one-letter escape stands for.
Unescape(c) ==
  IF c = "n" THEN NL
  ELSE IF c = "t" THEN TAB
  ELSE IF c = "r" THEN CR
  ELSE IF c = "b" THEN BS
  ELSE IF c = "f" THEN FF
  ELSE c

Hex4(b, i) ==
  HexVal(b[i]) * 4096 + HexVal(b[i + 1]) * 256 + HexVal(b[i + 2]) * 16 + HexVal(b[i + 3])

\* The string whose opening quote is before b[i0]: its characters, unquoted.
\* i is the end of the run of plain characters from i0.
RECURSIVE ScanString(_, _, _), ScanStringAt(_, _, _, _)
ScanString(b, i0, acc) == ScanStringAt(b, i0, PlainEnd(b, i0), acc)

ScanStringAt(b, i0, i, acc) ==
  IF i > Len(b) THEN Fail
  ELSE IF b[i] = QUOTE THEN [ok |-> TRUE, v |-> acc \o Slice(b, i0, i), p |-> i + 1]
  ELSE IF b[i] # BSLASH \/ i + 1 > Len(b) THEN Fail
  ELSE IF b[i + 1] \in {QUOTE, BSLASH, "/", "b", "f", "n", "r", "t"}
    THEN ScanString(b, i + 2, acc \o Slice(b, i0, i) \o <<Unescape(b[i + 1])>>)
  ELSE IF b[i + 1] = "u" /\ i + 5 <= Len(b) /\ \A d \in 2..5 : IsHex(b[i + d])
    THEN ScanString(b, i + 6, acc \o Slice(b, i0, i) \o <<Chr(Hex4(b, i + 2))>>)
  ELSE Fail

\* -? (0 | [1-9][0-9]*) (. [0-9]+)? ([eE] [+-]? [0-9]+)?
\* i1 is where the integer part starts, i2 where it ends; i3 where the
\* fraction ends; i4 where the exponent's digits start.
ScanExponent(b, i, i3, i4) ==
  IF i3 <= Len(b) /\ b[i3] \in {"e", "E"}
  THEN IF DigitsEnd(b, i4) > i4
       THEN [ok |-> TRUE, v |-> Node("number", Slice(b, i, DigitsEnd(b, i4)), <<>>),
             p |-> DigitsEnd(b, i4)]
       ELSE Fail
  ELSE [ok |-> TRUE, v |-> Node("number", Slice(b, i, i3), <<>>), p |-> i3]

ScanFraction(b, i, i2, i3) ==
  IF i2 <= Len(b) /\ b[i2] = "." /\ i3 = i2 + 1 THEN Fail
  ELSE ScanExponent(b, i, i3,
         IF i3 + 1 <= Len(b) /\ b[i3 + 1] \in {"+", "-"} THEN i3 + 2 ELSE i3 + 1)

ScanInteger(b, i, i1, i2) ==
  IF i2 = i1 \/ (b[i1] = "0" /\ i2 # i1 + 1) THEN Fail
  ELSE ScanFraction(b, i, i2,
         IF i2 <= Len(b) /\ b[i2] = "." THEN DigitsEnd(b, i2 + 1) ELSE i2)

ScanSigned(b, i, i1) == ScanInteger(b, i, i1, DigitsEnd(b, i1))

ScanNumber(b, i) == ScanSigned(b, i, IF b[i] = "-" THEN i + 1 ELSE i)

Literal(b, i, w, t) ==
  IF HasPrefixAt(b, i, w)
  THEN [ok |-> TRUE, v |-> Node(t, w, <<>>), p |-> i + Len(w)]
  ELSE Fail

StringNode(r) == IF r.ok THEN [ok |-> TRUE, v |-> Node("string", r.v, <<>>), p |-> r.p] ELSE Fail

\* The scanner, one operator per state: a value is expected at i; a key of
\* an object at i; the colon after key k; the value v of key, and what
\* follows it at e; an element v of an array, and what follows it at e.
RECURSIVE ParseValue(_, _), ValueAt(_, _), ParseMembers(_, _, _), MemberKey(_, _, _),
          MemberColon(_, _, _, _), MemberValue(_, _, _, _), MemberEnd(_, _, _),
          ParseElements(_, _, _), ElementValue(_, _, _), ElementEnd(_, _, _)
ParseValue(b, i0) == ValueAt(b, SkipWS(b, i0))

ValueAt(b, i) ==
  IF i > Len(b) THEN Fail
  ELSE IF b[i] = "{" THEN ParseMembers(b, SkipWS(b, i + 1), <<>>)
  ELSE IF b[i] = "[" THEN ParseElements(b, SkipWS(b, i + 1), <<>>)
  ELSE IF b[i] = QUOTE THEN StringNode(ScanString(b, i + 1, <<>>))
  ELSE IF b[i] = "t" THEN Literal(b, i, <<"t", "r", "u", "e">>, "bool")
  ELSE IF b[i] = "f" THEN Literal(b, i, <<"f", "a", "l", "s", "e">>, "bool")
  ELSE IF b[i] = "n" THEN Literal(b, i, <<"n", "u", "l", "l">>, "null")
  ELSE IF b[i] = "-" \/ IsDigit(b[i]) THEN ScanNumber(b, i)
  ELSE Fail

ParseMembers(b, i, acc) ==
  IF acc = <<>> /\ i <= Len(b) /\ b[i] = "}"
  THEN [ok |-> TRUE, v |-> Node("object", <<>>, <<>>), p |-> i + 1]
  ELSE IF i > Len(b) \/ b[i] # QUOTE THEN Fail
  ELSE MemberKey(b, ScanString(b, i + 1, <<>>), acc)

MemberKey(b, k, acc) ==
  IF ~k.ok THEN Fail ELSE MemberColon(b, k.v, SkipWS(b, k.p), acc)

MemberColon(b, key, c, acc) ==
  IF c > Len(b) \/ b[c] # ":" THEN Fail
  ELSE MemberValue(b, key, ParseValue(b, c + 1), acc)

MemberValue(b, key, v, acc) ==
  IF ~v.ok THEN Fail
  ELSE MemberEnd(b, SkipWS(b, v.p), Append(acc, [k |-> key, v |-> v.v]))

MemberEnd(b, e, acc) ==
  IF e > Len(b) THEN Fail
  ELSE IF b[e] = "," THEN ParseMembers(b, SkipWS(b, e + 1), acc)
  ELSE IF b[e] = "}" THEN [ok |-> TRUE, v |-> Node("object", <<>>, acc), p |-> e + 1]
  ELSE Fail

ParseElements(b, i, acc) ==
  IF acc = <<>> /\ i <= Len(b) /\ b[i] = "]"
  THEN [ok |-> TRUE, v |-> Node("array", <<>>, <<>>), p |-> i + 1]
  ELSE ElementValue(b, ValueAt(b, i), acc)

ElementValue(b, v, acc) ==
  IF ~v.ok THEN Fail ELSE ElementEnd(b, SkipWS(b, v.p), Append(acc, v.v))

ElementEnd(b, e, acc) ==
  IF e > Len(b) THEN Fail
  ELSE IF b[e] = "," THEN ParseElements(b, SkipWS(b, e + 1), acc)
  ELSE IF b[e] = "]" THEN [ok |-> TRUE, v |-> Node("array", <<>>, acc), p |-> e + 1]
  ELSE Fail

\* One JSON value, white space around it, and nothing else.
Whole(b, r) == IF r.ok /\ SkipWS(b, r.p) > Len(b) THEN r ELSE Fail

Parse(b) == Whole(b, ParseValue(b, 1))

\* json.Valid
Valid(b) == Parse(b).ok

(***************************************************************************)
(* Numbers.  A JSON number decoded into interface{} becomes a float64.     *)
(* Integers are rounded to 53 significant bits, ties to even, which is     *)
(* exact arithmetic on the decimal digits; the text of a literal with a    *)
(* fraction or a negative exponent is kept as its value (the rounding of   *)
(* non-integers is not modelled, and no message of the model has one).     *)
(***************************************************************************)
Digit(n) == Digits[n + 1]

RECURSIVE StripZeros(_)
StripZeros(d) == IF Len(d) > 1 /\ d[1] = "0" THEN StripZeros(Tail(d)) ELSE d

\* d < e, for digit strings without leading zeros
RECURSIVE DigitsLess(_, _)
DigitsLess(d, e) ==
  IF Len(d) # Len(e) THEN Len(d) < Len(e)
  ELSE IF Len(d) = 0 THEN FALSE
  ELSE IF d[1] # e[1] THEN DigitVal(d[1]) < DigitVal(e[1])
  ELSE DigitsLess(Tail(d), Tail(e))

IsOdd(d) == DigitVal(d[Len(d)]) % 2 = 1

RECURSIVE HalfFrom(_, _, _)
HalfFrom(d, i, carry) ==
  IF i > Len(d) THEN <<>>
  ELSE LET x == carry * 10 + DigitVal(d[i])
       IN <<Digit(x \div 2)>> \o HalfFrom(d, i + 1, x % 2)

Half(d) == StripZeros(HalfFrom(d, 1, 0))

RECURSIVE TwiceFrom(_, _, _)
TwiceFrom(d, i, carry) ==
  IF i = 0 THEN (IF carry = 0 THEN <<>> ELSE <<Digit(carry)>>)
  ELSE LET x == 2 * DigitVal(d[i]) + carry
       IN TwiceFrom(d, i - 1, x \div 10) \o <<Digit(x % 10)>>

Twice(d) == TwiceFrom(d, Len(d), 0)

RECURSIVE IncFrom(_, _)
IncFrom(d, i) ==
  IF i = 0 THEN <<"1">> \o d
  ELSE IF d[i] = "9" THEN IncFrom([d EXCEPT ![i] = "0"], i - 1)
  ELSE [d EXCEPT ![i] = Digit(DigitVal(d[i]) + 1)]

Inc(d) == IncFrom(d, Len(d))

RECURSIVE TwiceTimes(_, _)
TwiceTimes(d, k) == IF k = 0 THEN d ELSE TwiceTimes(Twice(d), k - 1)

RECURSIVE Zeros(_)
Zeros(n) == IF n = 0 THEN <<>> ELSE <<"0">> \o Zeros(n - 1)

RECURSIVE DigitsValue(_, _)
DigitsValue(d, acc) ==
  IF Len(d) = 0 THEN acc ELSE DigitsValue(Tail(d), acc * 10 + DigitVal(d[1]))

Two53 == <<"9", "0", "0", "7", "1", "9", "9", "2", "5", "4", "7", "4", "0", "9", "9", "2">>

\* Halve n until it has at most 53 bits: k halvings, the last bit shifted out
\* and whether any bit before it was set.
RECURSIVE Shift53(_, _, _, _)
Shift53(n, k, last, sticky) ==
  IF DigitsLess(n, Two53) THEN [n |-> n, k |-> k, up |-> last /\ (sticky \/ IsOdd(n))]
  ELSE Shift53(Half(n), k + 1, IsOdd(n), sticky \/ last)

Rounded(r, m) ==
  [err |-> r.k > 971 \/ (r.k = 971 /\ m = Two53), s |-> TwiceTimes(m, r.k)]

RoundUp(r) == Rounded(r, IF r.up THEN Inc(r.n) ELSE r.n)

\* The float64 nearest to the integer with digits d: [err, s]; err when it
\* is beyond the largest float64.
RoundInteger(d) == RoundUp(Shift53(d, 0, FALSE, FALSE))

Signed(sign, r) == [err |-> r.err, s |-> IF r.err THEN <<>> ELSE sign \o r.s]

\* The value of sign int e exp, exp without leading zeros.
Float64Integer(sign, int, exp) ==
  IF int = <<"0">> THEN [err |-> FALSE, s |-> sign \o int]
  ELSE IF Len(exp) > 3 \/ Len(int) + DigitsValue(exp, 0) > 309
    THEN [err |-> TRUE, s |-> <<>>]
  ELSE Signed(sign, RoundInteger(int \o Zeros(DigitsValue(exp, 0))))

\* The literal from its parts: the integer part is text[i1..x-1] unless there
\* is a fraction, x is where the exponent mark is (Len(text) + 1 if none).
Float64Parts(text, i1, x) ==
  IF (\E i \in i1..(x - 1) : text[i] = ".") \/ (x < Len(text) /\ text[x + 1] = "-")
  THEN [err |-> FALSE, s |-> text]
  ELSE Float64Integer(
         Slice(text, 1, i1), Slice(text, i1, x),
         IF x > Len(text) THEN <<"0">>
         ELSE StripZeros(Slice(text, IF text[x + 1] = "+" THEN x + 2 ELSE x + 1,
                               Len(text) + 1)))

\* strconv.ParseFloat(text, 64) as the decoder uses it: [err, s], s the value.
Float64(text) ==
  Float64Parts(text, IF text[1] = "-" THEN 2 ELSE 1,
    CHOOSE x \in 1..(Len(text) + 1) :
      /\ x <= Len(text) => text[x] \in {"e", "E"}
      /\ \A j \in 1..(x - 1) : text[j] \notin {"e", "E"})

(***************************************************************************)
(* Decoded values: what json.Unmarshal stores into an interface{}.         *)
(* [t, s, a, m]: t the Go type, s the characters of a string (or the       *)
(* digits of a float64, or true/false), a the elements of a slice, m the   *)
(* map from key to value.                                                  *)
(***************************************************************************)
Val(t, s, a, m) == [t |-> t, s |-> s, a |-> a, m |-> m]

String(s)  == Val("string", s, <<>>, <<>>)
Nil        == Val("nil", <<>>, <<>>, <<>>)
Slice_(a)  == Val("slice", <<>>, a, <<>>)
Map(m)     == Val("map", <<>>, <<>>, m)

Keys(members) == {members[i].k : i \in 1..Len(members)}

\* The last member with key k: a later duplicate overwrites an earlier one.
LastWith(members, k) ==
  CHOOSE i \in 1..Len(members) :
    members[i].k = k /\ \A j \in (i + 1)..Len(members) : members[j].k # k

Number(f) == [err |-> f.err, v |-> Val("float64", f.s, <<>>, <<>>)]

\* The decoder's value for a syntax node, stored into an interface{}:
\* [err, v].  An out-of-range number is an UnmarshalTypeError; the decoder
\* goes on and reports it at the end.
RECURSIVE ToInterface(_)
ToInterface(n) ==
  IF n.t = "string" THEN [err |-> FALSE, v |-> String(n.s)]
  ELSE IF n.t = "number" THEN Number(Float64(n.s))
  ELSE IF n.t = "bool" THEN [err |-> FALSE, v |-> Val("bool", n.s, <<>>, <<>>)]
  ELSE IF n.t = "null" THEN [err |-> FALSE, v |-> Nil]
  ELSE IF n.t = "array" THEN
    LET es == [i \in 1..Len(n.a) |-> ToInterface(n.a[i])]
    IN [err |-> \E i \in 1..Len(n.a) : es[i].err,
        v   |-> Slice_([i \in 1..Len(n.a) |-> es[i].v])]
  ELSE
    LET es == [i \in 1..Len(n.a) |-> ToInterface(n.a[i].v)]
    IN [err |-> \E i \in 1..Len(n.a) : es[i].err,
        v   |-> Map([k \in Keys(n.a) |-> es[LastWith(n.a, k)].v])]

MapOf(d) == [err |-> IF d.err THEN "UnmarshalTypeError" ELSE "nil", m |-> d.v.m]

GenMapOf(r) ==
  IF ~r.ok THEN [err |-> "SyntaxError", m |-> <<>>]
  ELSE IF r.v.t = "null" THEN [err |-> "nil", m |-> <<>>]
  ELSE IF r.v.t # "object" THEN [err |-> "UnmarshalTypeError", m |-> <<>>]
  ELSE MapOf(ToInterface(r.v))

\* json.Unmarshal(b, &m), m an empty genMap: [err, m].
UnmarshalMap(b) == GenMapOf(Parse(b))

(***************************************************************************)
(* The encoder (json.Encoder with SetEscapeHTML as given).                 *)
(***************************************************************************)
U00(h, l) == <<BSLASH, "u", "0", "0", h, l>>

EscapeByte(c, escapeHTML) ==
  IF c = QUOTE \/ c = BSLASH THEN <<BSLASH, c>>
  ELSE IF c = NL THEN <<BSLASH, "n">>
  ELSE IF c = CR THEN <<BSLASH, "r">>
  ELSE IF c = TAB THEN <<BSLASH, "t">>
  ELSE IF c = BS THEN U00("0", "8")
  ELSE IF c = FF THEN U00("0", "c")
  ELSE IF c = UNI THEN <<BSLASH, "u", "f", "f", "f", "d">>
  ELSE IF escapeHTML /\ c = "<" THEN U00("3", "c")
  ELSE IF escapeHTML /\ c = ">" THEN U00("3", "e")
  ELSE IF escapeHTML /\ c = "&" THEN U00("2", "6")
  ELSE <<c>>

NeedsEscape(c, escapeHTML) == EscapeByte(c, escapeHTML) # <<c>>

\* s[i0..] escaped; i is the first position from i0 on that needs an escape.
RECURSIVE EscapeFrom(_, _, _), EscapeAt(_, _, _, _)
EscapeFrom(s, i0, escapeHTML) ==
  EscapeAt(s, i0,
    CHOOSE k \in i0..(Len(s) + 1) :
      /\ k <= Len(s) => NeedsEscape(s[k], escapeHTML)
      /\ \A j \in i0..(k - 1) : ~NeedsEscape(s[j], escapeHTML),
    escapeHTML)

EscapeAt(s, i0, i, escapeHTML) ==
  IF i > Len(s) THEN Slice(s, i0, i)
  ELSE Slice(s, i0, i) \o EscapeByte(s[i], escapeHTML) \o EscapeFrom(s, i + 1, escapeHTML)

QuoteString(s, escapeHTML) == <<QUOTE>> \o EscapeFrom(s, 1, escapeHTML) \o <<QUOTE>>

\* a < b, bytewise: the order the encoder writes a map's keys in
RECURSIVE KeyLess(_, _)
KeyLess(a, b) ==
  IF Len(b) = 0 THEN FALSE
  ELSE IF Len(a) = 0 THEN TRUE
  ELSE IF a[1] # b[1] THEN Code(a[1]) < Code(b[1])
  ELSE KeyLess(Tail(a), Tail(b))

RECURSIVE SortedKeys(_)
SortedKeys(S) ==
  IF S = {} THEN <<>>
  ELSE LET k == CHOOSE x \in S : \A y \in S \ {x} : KeyLess(x, y)
       IN <<k>> \o SortedKeys(S \ {k})

RECURSIVE JoinFrom(_, _)
JoinFrom(parts, i) ==
  IF i > Len(parts) THEN <<>>
  ELSE (IF i > 1 THEN <<",">> ELSE <<>>) \o parts[i] \o JoinFrom(parts, i + 1)

Join(parts) == JoinFrom(parts, 1)

RECURSIVE Marshal(_, _)
Marshal(v, escapeHTML) ==
  IF v.t = "string" THEN QuoteString(v.s, escapeHTML)
  ELSE IF v.t = "float64" \/ v.t = "bool" THEN v.s
  ELSE IF v.t = "nil" THEN <<"n", "u", "l", "l">>
  ELSE IF v.t = "slice" THEN
    <<"[">> \o Join([i \in 1..Len(v.a) |-> Marshal(v.a[i], escapeHTML)]) \o <<"]">>
  ELSE
    LET ks == SortedKeys(DOMAIN v.m)
    IN <<"{">>
       \o Join([i \in 1..Len(ks) |->
                 QuoteString(ks[i], escapeHTML) \o <<":">> \o Marshal(v.m[ks[i]], escapeHTML)])
       \o <<"}">>

(***************************************************************************)
(* hcsschema.ProcessParameters.  The struct is declared in                 *)
(* internal/hcs/schema2, outside the source at hand; it is taken here as   *)
(* its documentation describes it: CommandLine (a string) and Environment  *)
(* (a map from string to string), both omitted from the encoding when      *)
(* empty, decoded and encoded as encoding/json does any struct.            *)
(***************************************************************************)
CommandLineName == <<"C", "o", "m", "m", "a", "n", "d", "L", "i", "n", "e">>
EnvironmentName == <<"E", "n", "v", "i", "r", "o", "n", "m", "e", "n", "t">>

ProcessParameters == [CommandLine |-> <<>>, Environment |-> <<>>]

Lower(c) == IF Code(c) >= 65 /\ Code(c) <= 90 THEN Chr(Code(c) + 32) ELSE c

EqualFold(a, b) == Len(a) = Len(b) /\ \A i \in 1..Len(a) : Lower(a[i]) = Lower(b[i])

\* The struct field a key names: the exact name, else the name up to case.
FieldOf(k) ==
  IF EqualFold(k, CommandLineName) THEN "CommandLine"
  ELSE IF EqualFold(k, EnvironmentName) THEN "Environment"
  ELSE "none"

Put(m, k, v) == [x \in (DOMAIN m) \cup {k} |-> IF x = k THEN v ELSE m[x]]

\* The members of a JSON object decoded into a map[string]string: [err, m].
RECURSIVE DecodeStringMap(_, _, _, _)
DecodeStringMap(members, i, m, e) ==
  IF i > Len(members) THEN [err |-> e, m |-> m]
  ELSE IF members[i].v.t = "string"
    THEN DecodeStringMap(members, i + 1, Put(m, members[i].k, members[i].v.s), e)
  ELSE DecodeStringMap(members, i + 1, Put(m, members[i].k, <<>>),
                       e \/ members[i].v.t # "null")

\* Environment decoded from the value v: [err, m].
DecodeEnvironment(v, m) ==
  IF v.t = "null" THEN [err |-> FALSE, m |-> <<>>]
  ELSE IF v.t = "object" THEN DecodeStringMap(v.a, 1, m, FALSE)
  ELSE [err |-> TRUE, m |-> m]

\* The members of a JSON object decoded into the struct: [err, pp].  f is the
\* field the i-th key names, v its value.
RECURSIVE DecodeFields(_, _, _, _), DecodeField(_, _, _, _, _, _), SetEnvironment(_, _, _, _, _)
DecodeFields(members, i, pp, e) ==
  IF i > Len(members) THEN [err |-> e, pp |-> pp]
  ELSE DecodeField(members, i, pp, e, FieldOf(members[i].k), members[i].v)

DecodeField(members, i, pp, e, f, v) ==
  IF f = "none" \/ (f = "CommandLine" /\ v.t = "null")
    THEN DecodeFields(members, i + 1, pp, e)
  ELSE IF f = "CommandLine"
    THEN IF v.t = "string"
         THEN DecodeFields(members, i + 1, [pp EXCEPT !.CommandLine = v.s], e)
         ELSE DecodeFields(members, i + 1, pp, TRUE)
  ELSE SetEnvironment(members, i, pp, e, DecodeEnvironment(v, pp.Environment))

SetEnvironment(members, i, pp, e, d) ==
  DecodeFields(members, i + 1, [pp EXCEPT !.Environment = d.m], e \/ d.err)

FieldsOf(d) == [err |-> IF d.err THEN "UnmarshalTypeError" ELSE "nil", pp |-> d.pp]

StructOf(r) ==
  IF ~r.ok THEN [err |-> "SyntaxError", pp |-> ProcessParameters]
  ELSE IF r.v.t = "null" THEN [err |-> "nil", pp |-> ProcessParameters]
  ELSE IF r.v.t # "object" THEN [err |-> "UnmarshalTypeError", pp |-> ProcessParameters]
  ELSE FieldsOf(DecodeFields(r.v.a, 1, ProcessParameters, FALSE))

\* json.Unmarshal(b, &pp), pp a zero ProcessParameters: [err, pp].
UnmarshalStruct(b) == StructOf(Parse(b))

StringMap(m) == Map([k \in DOMAIN m |-> String(m[k])])

MarshalStruct(pp, escapeHTML) ==
  <<"{">>
  \o Join(
       (IF pp.CommandLine = <<>> THEN <<>>
        ELSE << QuoteString(CommandLineName, escapeHTML) \o <<":">>
                \o QuoteString(pp.CommandLine, escapeHTML) >>)
       \o
       (IF DOMAIN pp.Environment = {} THEN <<>>
        ELSE << QuoteString(EnvironmentName, escapeHTML) \o <<":">>
                \o Marshal(StringMap(pp.Environment), escapeHTML) >>))
  \o <<"}">>

(***************************************************************************)
(* scrub.go                                                                *)
(***************************************************************************)
\* The keys the redaction looks for.
ActivityIdName        == <<"A", "c", "t", "i", "v", "i", "t", "y", "I", "d">>
ContainerIdName       == <<"C", "o", "n", "t", "a", "i", "n", "e", "r", "I", "d">>
ContainerConfigName   == <<"C", "o", "n", "t", "a", "i", "n", "e", "r", "C", "o", "n", "f", "i", "g">>
OciSpecificationName  == <<"O", "c", "i", "S", "p", "e", "c", "i", "f", "i", "c", "a", "t", "i", "o", "n">>
processName           == <<"p", "r", "o", "c", "e", "s", "s">>
envName               == <<"e", "n", "v">>
SettingsName          == <<"S", "e", "t", "t", "i", "n", "g", "s">>
ProcessParametersName == <<"P", "r", "o", "c", "e", "s", "s", "P", "a", "r", "a", "m", "e", "t", "e", "r", "s">>

ScrubbedReplacement == <<"<", "s", "c", "r", "u", "b", "b", "e", "d", ">">>

ErrUnknownType == "ErrUnknownType"

_scrubKeywords == << <<"e", "n", "v">>, EnvironmentName >>

IsScrubbingEnabled == _scrub # 0

hasKeywords(b) == \E i \in 1..Len(_scrubKeywords) : Contains(b, _scrubKeywords[i])

\* encode(buf, v): v a ProcessParameters or a decoded value; [err, buf].  Encode
\* writes the value and a newline, and fails on no value a decode produces.
encode(v) ==
  [err |-> "nil",
   buf |-> (IF "t" \in DOMAIN v THEN Marshal(v, FALSE) ELSE MarshalStruct(v, FALSE))
           \o <<NL>>]

\* isRequestBase, were line 154 to return a || c.
isRequestBaseEither(m) ==
  LET a == ActivityIdName \in DOMAIN m
      c == ContainerIdName \in DOMAIN m
  IN a \/ c

isRequestBase(m) ==
  LET a == ActivityIdName \in DOMAIN m
      c == ContainerIdName \in DOMAIN m
  IN a /\ c

index(m, s) ==
  IF s \in DOMAIN m
  THEN [m |-> IF m[s].t = "map" THEN m[s].m ELSE <<>>, ok |-> m[s].t = "map"]
  ELSE [m |-> m, ok |-> FALSE]

\* What an operation returns once encode is done: [b, err].
Encoded(e) ==
  IF e.err # "nil" THEN [b |-> <<>>, err |-> e.err] ELSE [b |-> e.buf, err |-> "nil"]

\* ScrubStruct, were line 56 to add the sentinel entry to the decoded
\* Environment and not to replace it.
ScrubStructMerging(d) ==
  IF d.err # "nil" THEN [b |-> <<>>, err |-> d.err]
  ELSE Encoded(encode([d.pp EXCEPT !.Environment =
                         Put(@, ScrubbedReplacement, ScrubbedReplacement)]))

\* ScrubProcessParameters from the decoded struct on: [b, err].
ScrubStruct(d) ==
  IF d.err # "nil" THEN [b |-> <<>>, err |-> d.err]
  ELSE Encoded(encode([d.pp EXCEPT !.Environment =
                         [k \in {ScrubbedReplacement} |-> ScrubbedReplacement]]))

\* ScrubProcessParameters(s), enabled being what IsScrubbingEnabled() returns
\* to it: [b, err], b the string returned.
ScrubProcessParameters(enabled, s) ==
  IF ~enabled \/ ~hasKeywords(s) \/ ~Valid(s) THEN [b |-> s, err |-> "nil"]
  ELSE ScrubStruct(UnmarshalStruct(s))

\* scrubLinuxHostedSystem, were it to return nil where the process object
\* has no env (nothing to redact taken for success).
scrubLinuxHostedSystemOpen(m) ==
  IF ~isRequestBase(m) THEN [m |-> m, err |-> ErrUnknownType]
  ELSE
    LET cc == index(m, ContainerConfigName)
        os == index(cc.m, OciSpecificationName)
        pr == index(os.m, processName)
    IN IF cc.ok /\ os.ok /\ pr.ok
       THEN [m   |-> IF envName \in DOMAIN pr.m
                     THEN [m EXCEPT ![ContainerConfigName].m[OciSpecificationName]
                                      .m[processName].m =
                            Put(@, envName, Slice_(<<String(ScrubbedReplacement)>>))]
                     ELSE m,
             err |-> "nil"]
       ELSE [m |-> m, err |-> ErrUnknownType]

\* scrubLinuxHostedSystem, were line 79 to append the sentinel to what env
\* holds and not to replace it.
scrubLinuxHostedSystemAppending(m) ==
  IF ~isRequestBase(m) THEN [m |-> m, err |-> ErrUnknownType]
  ELSE
    LET cc == index(m, ContainerConfigName)
        os == index(cc.m, OciSpecificationName)
        pr == index(os.m, processName)
    IN IF cc.ok /\ os.ok /\ pr.ok /\ envName \in DOMAIN pr.m
       THEN [m   |-> [m EXCEPT ![ContainerConfigName].m[OciSpecificationName]
                                   .m[processName].m =
                         Put(@, envName,
                             Slice_((IF @[envName].t = "slice" THEN @[envName].a ELSE <<>>)
                                    \o <<String(ScrubbedReplacement)>>))],
             err |-> "nil"]
       ELSE [m |-> m, err |-> ErrUnknownType]

\* scrubLinuxHostedSystem(m): [m, err], m the map as the call leaves it.
scrubLinuxHostedSystem(m) ==
  IF ~isRequestBase(m) THEN [m |-> m, err |-> ErrUnknownType]
  ELSE
    LET cc == index(m, ContainerConfigName)
        os == index(cc.m, OciSpecificationName)
        pr == index(os.m, processName)
    IN IF cc.ok /\ os.ok /\ pr.ok /\ envName \in DOMAIN pr.m
       THEN [m   |-> [m EXCEPT ![ContainerConfigName].m[OciSpecificationName]
                                   .m[processName].m =
                         Put(@, envName, Slice_(<<String(ScrubbedReplacement)>>))],
             err |-> "nil"]
       ELSE [m |-> m, err |-> ErrUnknownType]

\* SetProcessParameters, were lines 107-109 to drop the error and leave the
\* string as it was.
SetProcessParametersLenient(m, r) ==
  IF r.err # "nil" THEN [m |-> m, err |-> "nil"]
  ELSE [m   |-> [m EXCEPT ![SettingsName].m = Put(@, ProcessParametersName, String(r.b))],
        err |-> "nil"]

\* scrubExecuteProcess from the nested call's return r on.
SetProcessParameters(m, r) ==
  IF r.err # "nil" THEN [m |-> m, err |-> r.err]
  ELSE [m   |-> [m EXCEPT ![SettingsName].m = Put(@, ProcessParametersName, String(r.b))],
        err |-> "nil"]

\* scrubExecuteProcess up to its call of ScrubProcessParameters: [err, s], s
\* the string it gives to the call.
ProcessParametersOf(m) ==
  IF ~isRequestBase(m) THEN [err |-> ErrUnknownType, s |-> <<>>]
  ELSE IF index(m, SettingsName).ok /\ ProcessParametersName \in DOMAIN index(m, SettingsName).m
    THEN IF index(m, SettingsName).m[ProcessParametersName].t # "string"
         THEN [err |-> ErrUnknownType, s |-> <<>>]
         ELSE [err |-> "nil", s |-> index(m, SettingsName).m[ProcessParametersName].s]
  ELSE [err |-> ErrUnknownType, s |-> <<>>]

\* scrubExecuteProcess from there on.
ScrubSettings(enabled, m, p) ==
  IF p.err # "nil" THEN [m |-> m, err |-> p.err]
  ELSE SetProcessParameters(m, ScrubProcessParameters(enabled, p.s))

\* scrubExecuteProcess(m), enabled being what IsScrubbingEnabled() returns to
\* the nested ScrubProcessParameters: [m, err].
scrubExecuteProcess(enabled, m) == ScrubSettings(enabled, m, ProcessParametersOf(m))

\* scrubBytes from scrub's return r on.
Reencode(r) ==
  IF r.err # "nil" THEN [b |-> <<>>, err |-> r.err] ELSE Encoded(encode(Map(r.m)))

\* scrubBytes from the decoded map on.
ScrubMap(inner, d, scrub) ==
  IF d.err # "nil" THEN [b |-> <<>>, err |-> d.err]
  ELSE Reencode(IF scrub = "scrubLinuxHostedSystem" THEN scrubLinuxHostedSystem(d.m)
                ELSE scrubExecuteProcess(inner, d.m))

\* scrubBytes, were line 119 not to ask json.Valid.
scrubBytesUnvalidated(outer, inner, b, scrub) ==
  IF ~outer \/ ~hasKeywords(b) THEN [b |-> b, err |-> "nil"]
  ELSE ScrubMap(inner, UnmarshalMap(b), scrub)

\* What scrubBytes returns, were it to hand back b with an error.
FallBack(b, r) == IF r.err # "nil" THEN [b |-> b, err |-> r.err] ELSE r

\* scrubBytes, were lines 125, 131 and 136 to return b, err.
scrubBytesFallingBack(outer, inner, b, scrub) ==
  IF ~outer \/ ~hasKeywords(b) \/ ~Valid(b) THEN [b |-> b, err |-> "nil"]
  ELSE FallBack(b, ScrubMap(inner, UnmarshalMap(b), scrub))

\* scrubBytes(b, scrub): [b, err].  outer is what IsScrubbingEnabled() returns
\* to scrubBytes, inner what it returns to the call scrub makes.
scrubBytes(outer, inner, b, scrub) ==
  IF ~outer \/ ~hasKeywords(b) \/ ~Valid(b) THEN [b |-> b, err |-> "nil"]
  ELSE ScrubMap(inner, UnmarshalMap(b), scrub)

ScrubBridgeCreate(enabled, b) == scrubBytes(enabled, enabled, b, "scrubLinuxHostedSystem")

ScrubBridgeExecProcess(outer, inner, b) == scrubBytes(outer, inner, b, "scrubExecuteProcess")

(***************************************************************************)
(* The messages the operations are given.                                  *)
(***************************************************************************)
MaxEnv == 2      \* environment entries in a message: 0..MaxEnv

Str(s)        == QuoteString(s, FALSE)
Member(k, v)  == Str(k) \o <<":">> \o v
Object(ms)    == <<"{">> \o Join(ms) \o <<"}">>
Array(es)     == <<"[">> \o Join(es) \o <<"]">>
If(c, m)      == IF c THEN <<m>> ELSE <<>>
Front(b)      == SubSeq(b, 1, Len(b) - 1)

EnvKey(i)     == <<"K", Digit(i)>>
EnvValue(i)   == <<"s", Digit(i)>>
EnvPair(i)    == EnvKey(i) \o <<"=">> \o EnvValue(i)

\* process.env of a create request: ["K1=s1", ...]
EnvArray(n)   == Array([i \in 1..n |-> Str(EnvPair(i))])
\* Environment of process parameters: {"K1":"s1", ...}
EnvObject(n)  == Object([i \in 1..n |-> Member(EnvKey(i), Str(EnvValue(i)))])

CommandLine   == <<"a", "<", "&", QUOTE, BSLASH>>
Keyword       == <<"e", "n", "v">>
BigInteger    == <<"9", "0", "0", "7", "1", "9", "9", "2", "5", "4", "7", "4", "0", "9", "9", "3">>
HugeNumber    == <<"1", "e", "9", "9", "9">>
EscapedE      == <<BSLASH, "u", "0", "0", "4", "5">>
Escapede      == <<BSLASH, "u", "0", "0", "6", "5">>
Null          == <<"n", "u", "l", "l">>

\* {"CommandLine":...,"Environment":{...}}
PPDoc(cmd, n) ==
  Object(If(cmd, Member(CommandLineName, Str(CommandLine)))
         \o <<Member(EnvironmentName, EnvObject(n))>>)

\* an object with the one member "<key>":{"K1":"s1"}, the key written raw
PPKeyed(rawKey) == Object(<<rawKey \o <<":">> \o EnvObject(1)>>)

\* The strings given as process parameters.
PPTexts ==
  {PPDoc(cmd, n) : cmd \in BOOLEAN, n \in 0..MaxEnv}
  \cup {Front(PPDoc(TRUE, n)) : n \in 1..MaxEnv}                 \* cut short
  \cup { <<>>,
         Object(<<Member(CommandLineName, Str(CommandLine))>>),   \* no keyword
         <<"{">> \o Str(CommandLineName),                        \* nor valid
         <<" ", "{", NL>> \o Member(EnvironmentName, <<" ">> \o EnvObject(1))
            \o <<" ", "}", NL>>,                                 \* white space
         PPKeyed(Str(<<"E", "N", "V", "I", "R", "O", "N", "M", "E", "N", "T">>)),
         PPKeyed(Str(<<"e", "n", "v", "i", "r", "o", "n", "m", "e", "n", "t">>)),
         PPKeyed(<<QUOTE>> \o EscapedE \o Tail(EnvironmentName) \o <<QUOTE>>),
         Object(<<Member(EnvironmentName, EnvArray(1))>>),        \* wrong type
         Object(<<Member(CommandLineName, <<"7">>),
                  Member(EnvironmentName, EnvObject(1))>>),
         Object(<<Member(EnvironmentName, Null)>>),
         Object(<<Member(EnvironmentName, Object(<<Member(EnvKey(1), Null)>>))>>),
         Object(<<Member(CommandLineName, Str(<<"p", "r", "i", "n", "t", "e", "n", "v">>))>>),
         Object(<<Member(EnvironmentName, EnvObject(1)),
                  Member(EnvironmentName, EnvObject(2)),
                  Member(<<"X", "t", "r", "a">>, Str(<<"r", "o", "o", "t">>))>>),
         Str(Keyword),                                           \* not an object
         Array(<<Str(Keyword)>>) }

\* What stands at ContainerConfig in a create request.
CreateShapes ==
  {"absent", "ccString", "noOci", "ociArray", "noProcess", "processNull", "noEnv",
   "envString", "envEscaped"}

Process(shape, n) ==
  Object(<<Member(<<"c", "w", "d">>, Str(IF shape = "noEnv" THEN <<"/">> \o Keyword ELSE <<"/">>))>>
         \o If(shape = "env", Member(envName, EnvArray(n)))
         \o If(shape = "envString", Member(envName, Str(EnvPair(1))))
         \o If(shape = "envEscaped",
               <<QUOTE>> \o Escapede \o Tail(envName) \o <<QUOTE, ":">> \o EnvArray(1)))

OciSpecification(shape, n, extra) ==
  Object(If(shape = "noProcess", Member(<<"r", "o", "o", "t">>, Str(Keyword)))
         \o If(shape = "processNull", Member(processName, Null))
         \o If(shape = "processNull", Member(<<"r", "o", "o", "t">>, Str(Keyword)))
         \o If(shape \in {"noEnv", "env", "envString", "envEscaped"},
               Member(processName, Process(shape, n)))
         \o If(extra = "big", Member(<<"l", "i", "m", "i", "t">>, BigInteger))
         \o If(extra = "small", Member(<<"l", "i", "m", "i", "t">>, <<"4", "2">>)))

ContainerConfig(shape, n, extra) ==
  IF shape = "ccString" THEN Str(Keyword)
  ELSE Object(If(shape = "noOci", Member(<<"x">>, Str(Keyword)))
              \o If(shape = "ociArray", Member(OciSpecificationName, Array(<<Str(Keyword)>>)))
              \o If(shape \notin {"noOci", "ociArray"},
                    Member(OciSpecificationName, OciSpecification(shape, n, extra))))

Extras == {"none", "small", "big", "huge", "text", "keyword"}

\* The extra member of a request: a value the redaction has no business with.
Extra(extra) ==
  If(extra = "huge", Member(<<"T", "i", "m", "e", "o", "u", "t">>, HugeNumber))
  \o If(extra = "text", Member(<<"N", "o", "t", "e">>,
                               Array(<<Str(CommandLine), <<"t", "r", "u", "e">>, Null, <<"7">>>>)))
  \o If(extra = "keyword", Member(<<"N", "o", "t", "e">>, Str(Keyword)))

Base(act, cid) ==
  If(act, Member(ActivityIdName, Str(<<"a", "1">>)))
  \o If(cid, Member(ContainerIdName, Str(<<"c", "1">>)))

CreateDoc(act, cid, shape, n, extra) ==
  Object(Base(act, cid)
         \o If(shape = "absent", Member(<<"X">>, Str(Keyword)))
         \o If(shape # "absent", Member(ContainerConfigName, ContainerConfig(shape, n, extra)))
         \o Extra(extra))

\* The bytes given as create requests.
CreateTexts ==
  {CreateDoc(act, cid, shape, 0, extra) :
     act \in BOOLEAN, cid \in BOOLEAN, shape \in CreateShapes, extra \in {"none", "huge"}}
  \cup {CreateDoc(act, cid, "env", n, extra) :
          act \in BOOLEAN, cid \in BOOLEAN, n \in 0..MaxEnv, extra \in Extras}
  \cup {CreateDoc(TRUE, TRUE, "envEscaped", 0, "keyword"),
        Front(CreateDoc(TRUE, TRUE, "env", 1, "none")),
        <<" ">> \o CreateDoc(TRUE, TRUE, "env", 1, "none") \o <<NL>>,
        CreateDoc(TRUE, TRUE, "env", 1, "none") \o CreateDoc(TRUE, TRUE, "env", 1, "none"),
        Array(<<CreateDoc(TRUE, TRUE, "env", 1, "none")>>),
        Object(Base(TRUE, TRUE)),
        <<>>}

\* The JSON string q with every E written as the escape \u0045.
WithEscapedE(q) ==
  LET f[i \in 0..Len(q)] ==
        IF i = 0 THEN <<>> ELSE f[i - 1] \o (IF q[i] = "E" THEN EscapedE ELSE <<q[i]>>)
  IN f[Len(q)]

\* What stands at Settings in an exec request, but for the strings PPTexts.
ExecShapes == {"absent", "settingsString", "noParameters", "parametersObject"}

ExecDoc(act, cid, shape, text, extra) ==
  Object(Base(act, cid)
         \o If(shape = "absent", Member(<<"X">>, Str(Keyword)))
         \o If(shape = "settingsString", Member(SettingsName, Str(Keyword)))
         \o If(shape = "noParameters",
               Member(SettingsName, Object(<<Member(<<"x">>, Str(Keyword))>>)))
         \o If(shape = "parametersObject",
               Member(SettingsName, Object(<<Member(ProcessParametersName, PPDoc(TRUE, 1))>>)))
         \o If(shape = "string",
               Member(SettingsName, Object(<<Member(ProcessParametersName, Str(text))>>)))
         \o If(shape = "stringEscaped",
               Member(SettingsName,
                      Object(<<Member(ProcessParametersName, WithEscapedE(Str(text)))>>)))
         \o Extra(extra))

\* The bytes given as exec requests.
ExecTexts ==
  {ExecDoc(act, cid, shape, <<>>, extra) :
     act \in BOOLEAN, cid \in BOOLEAN, shape \in ExecShapes, extra \in {"none", "huge"}}
  \cup {ExecDoc(act, cid, "string", text, extra) :
          act \in BOOLEAN, cid \in BOOLEAN, text \in PPTexts,
          extra \in {"none", "keyword", "big"}}
  \cup {ExecDoc(TRUE, TRUE, "stringEscaped", PPDoc(FALSE, n), extra) :
          n \in 1..MaxEnv, extra \in {"none", "keyword"}}
  \cup {Front(ExecDoc(TRUE, TRUE, "string", PPDoc(TRUE, 1), "none")),
        ExecDoc(TRUE, TRUE, "string", PPDoc(TRUE, 1), "huge")}

(***************************************************************************)
(* The state machine: the flag, and calls of the three operations.  A      *)
(* call is one step (the operations hold no lock and share nothing but     *)
(* the flag, which each reads once or twice); its caller then takes the    *)
(* result, or gives the output to the same operation again.                *)
(***************************************************************************)
Init ==
  /\ _scrub = 0
  /\ op = "none"
  /\ in = <<>>
  /\ out = <<>>
  /\ err = "nil"
  /\ again = FALSE
  /\ prev = <<>>
  /\ prevSeen = FALSE
  /\ pc = "idle"
  /\ seenOuter = FALSE
  /\ seenInner = FALSE

SetScrubbing(enable) ==
  LET v == IF enable THEN 1 ELSE 0 IN
  /\ _scrub' = v
  /\ UNCHANGED <<op, in, out, err, again, prev, prevSeen, pc, seenOuter, seenInner>>

\* A call of operation o on b returns r.
Call(o, b, r) ==
  /\ op' = o
  /\ in' = b
  /\ out' = r.b
  /\ err' = r.err
  /\ seenOuter' = IsScrubbingEnabled
  /\ seenInner' = IsScrubbingEnabled
  /\ pc' = "returned"
  /\ UNCHANGED _scrub

CallScrubProcessParameters(s) ==
  /\ pc = "idle"
  /\ Call("ScrubProcessParameters", s, ScrubProcessParameters(IsScrubbingEnabled, s))
  /\ again' = FALSE /\ prev' = <<>> /\ prevSeen' = FALSE

CallScrubBridgeCreate(b) ==
  /\ pc = "idle"
  /\ Call("ScrubBridgeCreate", b, ScrubBridgeCreate(IsScrubbingEnabled, b))
  /\ again' = FALSE /\ prev' = <<>> /\ prevSeen' = FALSE

CallScrubBridgeExecProcess(b) ==
  /\ pc = "idle"
  /\ Call("ScrubBridgeExecProcess", b,
          ScrubBridgeExecProcess(IsScrubbingEnabled, IsScrubbingEnabled, b))
  /\ again' = FALSE /\ prev' = <<>> /\ prevSeen' = FALSE

\* The operation o on b, the flag read as it stands: [b, err].
Apply(o, b) ==
  IF o = "ScrubProcessParameters" THEN ScrubProcessParameters(IsScrubbingEnabled, b)
  ELSE scrubBytes(IsScrubbingEnabled, IsScrubbingEnabled, b,
                  IF o = "ScrubBridgeCreate" THEN "scrubLinuxHostedSystem"
                  ELSE "scrubExecuteProcess")

\* The output of a call that succeeded, given to the same operation.
Rescrub ==
  /\ pc = "returned"
  /\ err = "nil"
  /\ Call(op, out, Apply(op, out))
  /\ again' = TRUE /\ prev' = out /\ prevSeen' = seenOuter

\* The caller is done with the result: nothing of the call is kept.
Return ==
  /\ pc = "returned"
  /\ pc' = "idle"
  /\ op' = "none" /\ in' = <<>> /\ out' = <<>> /\ err' = "nil"
  /\ again' = FALSE /\ prev' = <<>> /\ prevSeen' = FALSE
  /\ seenOuter' = FALSE /\ seenInner' = FALSE
  /\ UNCHANGED _scrub

Next ==
  \/ \E enable \in BOOLEAN : SetScrubbing(enable)
  \/ \E s \in PPTexts : CallScrubProcessParameters(s)
  \/ \E b \in CreateTexts : CallScrubBridgeCreate(b)
  \/ \E b \in ExecTexts : CallScrubBridgeExecProcess(b)
  \/ Rescrub
  \/ Return

Spec == Init /\ [][Next]_vars

(***************************************************************************)
(* A call of ScrubBridgeExecProcess in the steps a concurrent SetScrubbing *)
(* can come between.  The call reads the flag in scrubBytes (line 119)     *)
(* and, if it gets as far as line 106, again in ScrubProcessParameters     *)
(* (line 48); everything else it touches is its own.                       *)
(***************************************************************************)
NestedIn(d) == d.err = "nil" /\ ProcessParametersOf(d.m).err = "nil"

\* scrubBytes(b, scrubExecuteProcess), the flag read as outer, gets to line 106.
ReachesNested(outer, b) ==
  outer /\ hasKeywords(b) /\ Valid(b) /\ NestedIn(UnmarshalMap(b))

Finish(r) ==
  /\ out' = r.b
  /\ err' = r.err
  /\ pc' = "returned"

\* The call up to the second read of the flag, or to its end if there is none.
ExecBegin(b) ==
  /\ pc = "idle"
  /\ op' = "ScrubBridgeExecProcess"
  /\ in' = b
  /\ seenOuter' = IsScrubbingEnabled
  /\ IF ReachesNested(IsScrubbingEnabled, b)
     THEN /\ pc' = "nested"
          /\ out' = <<>>
          /\ err' = "nil"
          /\ seenInner' = FALSE
     ELSE /\ Finish(ScrubBridgeExecProcess(IsScrubbingEnabled, IsScrubbingEnabled, b))
          /\ seenInner' = IsScrubbingEnabled
  /\ UNCHANGED <<_scrub, again, prev, prevSeen>>

\* The second read, and the rest of the call.
ExecNested ==
  /\ pc = "nested"
  /\ seenInner' = IsScrubbingEnabled
  /\ Finish(ScrubBridgeExecProcess(seenOuter, IsScrubbingEnabled, in))
  /\ UNCHANGED <<_scrub, op, in, seenOuter, again, prev, prevSeen>>

NextConc ==
  \/ \E enable \in BOOLEAN : SetScrubbing(enable)
  \/ \E b \in ExecTexts : ExecBegin(b)
  \/ ExecNested
  \/ Return

SpecConc == Init /\ [][NextConc]_vars

(***************************************************************************)
(* What the properties speak of.  The value a message has as written is    *)
(* read off its syntax, numbers by their digits, so that it owes nothing   *)
(* to the decoder of the operations.                                       *)
(***************************************************************************)
RECURSIVE Written(_)
Written(n) ==
  IF n.t = "object"
  THEN Map([k \in Keys(n.a) |-> Written(n.a[LastWith(n.a, k)].v)])
  ELSE IF n.t = "array" THEN Slice_([i \in 1..Len(n.a) |-> Written(n.a[i])])
  ELSE IF n.t = "null" THEN Nil
  ELSE Val(n.t, n.s, <<>>, <<>>)

Tree(b) == Written(Parse(b).v)

\* b is a JSON object that decodes into a genMap: an envelope.
Decodes(b) == Valid(b) /\ Parse(b).v.t = "object" /\ UnmarshalMap(b).err = "nil"

SameValue(a, b) == a = b \/ (Valid(a) /\ Valid(b) /\ Tree(a) = Tree(b))

HasBase(w) == ActivityIdName \in DOMAIN w.m /\ ContainerIdName \in DOMAIN w.m

IsMapAt(w, k) == w.t = "map" /\ k \in DOMAIN w.m /\ w.m[k].t = "map"

HasProcess(w) ==
  /\ IsMapAt(w, ContainerConfigName)
  /\ IsMapAt(w.m[ContainerConfigName], OciSpecificationName)
  /\ IsMapAt(w.m[ContainerConfigName].m[OciSpecificationName], processName)

ProcessOf(w) == w.m[ContainerConfigName].m[OciSpecificationName].m[processName]

HasEnv(w) == HasProcess(w) /\ envName \in DOMAIN ProcessOf(w).m

SentinelEnv == Slice_(<<String(ScrubbedReplacement)>>)

WithSentinelEnv(w) ==
  [w EXCEPT !.m[ContainerConfigName].m[OciSpecificationName].m[processName].m[envName] =
              SentinelEnv]

HasParameters(w) ==
  /\ IsMapAt(w, SettingsName)
  /\ ProcessParametersName \in DOMAIN w.m[SettingsName].m
  /\ w.m[SettingsName].m[ProcessParametersName].t = "string"

ParametersOf(w) == w.m[SettingsName].m[ProcessParametersName].s

ParametersIn(b) == ParametersOf(Tree(b))

SentinelMap == [k \in {ScrubbedReplacement} |-> ScrubbedReplacement]

\* s decodes into process parameters whose Environment is the sentinel mapping.
Redacted(s) ==
  /\ Valid(s)
  /\ UnmarshalStruct(s).err = "nil"
  /\ UnmarshalStruct(s).pp.Environment = SentinelMap

\* s is a JSON object whose member Environment is the sentinel mapping.
SentinelWritten(s) ==
  /\ Valid(s)
  /\ IsMapAt(Tree(s), EnvironmentName)
  /\ Tree(s).m[EnvironmentName] = StringMap(SentinelMap)

\* s is a JSON object with a member Environment that is an object.
EnvironmentWritten(s) == Valid(s) /\ IsMapAt(Tree(s), EnvironmentName)

\* s is the JSON of process parameters, with a member Environment that is
\* an object.
EncodesEnvironment(s) ==
  /\ Valid(s)
  /\ UnmarshalStruct(s).err = "nil"
  /\ IsMapAt(Tree(s), EnvironmentName)

\* s holds the value of environment entry i of the messages.
Carries(s, i) == Contains(s, EnvValue(i))

Called(o) == pc = "returned" /\ op = o

(***************************************************************************)
(* The properties.                                                         *)
(***************************************************************************)

\* C1: each of the three operations returns its input unchanged and no
\* error whenever the flag is off, or the input holds neither keyword, or the
\* input is not valid JSON.
C1_Passthrough ==
  (pc = "returned" /\ (~seenOuter \/ ~hasKeywords(in) \/ ~Valid(in)))
    => (out = in /\ err = "nil")

\* Malformed JSON that holds a keyword went through a bridge operation as it was.
C1_MalformedPassed ==
  /\ Called("ScrubBridgeCreate")
  /\ seenOuter /\ hasKeywords(in) /\ ~Valid(in)
  /\ out = in /\ err = "nil"

\* C2: with the flag on, for every valid JSON object with a keyword that
\* decodes as process parameters, ScrubProcessParameters returns an object
\* whose Environment is the one-entry sentinel mapping and whose CommandLine
\* is the input's.
C2_SentinelEnvironment ==
  (/\ Called("ScrubProcessParameters")
   /\ seenOuter /\ hasKeywords(in) /\ Valid(in)
   /\ Parse(in).v.t = "object" /\ UnmarshalStruct(in).err = "nil")
    => /\ err = "nil"
       /\ Redacted(out)
       /\ Tree(out).m[EnvironmentName] = StringMap(SentinelMap)
       /\ UnmarshalStruct(out).pp.CommandLine = UnmarshalStruct(in).pp.CommandLine

\* Process parameters with a command line and MaxEnv entries were redacted.
C2_ManyEntriesReplaced ==
  /\ Called("ScrubProcessParameters")
  /\ seenOuter
  /\ in = PPDoc(TRUE, MaxEnv)
  /\ err = "nil"
  /\ Redacted(out)
  /\ UnmarshalStruct(out).pp.CommandLine = CommandLine

\* C3: with the flag on, for every envelope with ActivityId, ContainerId and
\* an env key at ContainerConfig.OciSpecification.process, ScrubBridgeCreate
\* succeeds and returns the envelope with that env equal to ["<scrubbed>"]
\* and every other key, at every level, holding the value it had.
C3_EveryOtherKeyKept ==
  (/\ Called("ScrubBridgeCreate")
   /\ seenOuter
   /\ Decodes(in) /\ HasBase(Tree(in)) /\ HasEnv(Tree(in)))
    => /\ err = "nil"
       /\ Valid(out)
       /\ Tree(out) = WithSentinelEnv(Tree(in))

\* C4: with the flag on, for every exec envelope with ActivityId and
\* ContainerId whose Settings.ProcessParameters is a string that is the JSON
\* of process parameters with an Environment mapping, ScrubBridgeExecProcess
\* succeeds and the string it returns there decodes to the sentinel
\* Environment.
C4_NestedEnvironmentRedacted ==
  (/\ Called("ScrubBridgeExecProcess")
   /\ seenOuter /\ seenInner
   /\ Decodes(in) /\ HasBase(Tree(in)) /\ HasParameters(Tree(in))
   /\ EncodesEnvironment(ParametersIn(in)))
    => /\ err = "nil"
       /\ Valid(out)
       /\ HasParameters(Tree(out))
       /\ Redacted(ParametersIn(out))

\* C5: with the flag on, for every envelope with a keyword that lacks
\* ActivityId or ContainerId, ScrubBridgeCreate and ScrubBridgeExecProcess
\* return ErrUnknownType, whatever the rest of the envelope is.
C5_BaseSignature ==
  (/\ pc = "returned"
   /\ op \in {"ScrubBridgeCreate", "ScrubBridgeExecProcess"}
   /\ seenOuter /\ hasKeywords(in)
   /\ Decodes(in) /\ ~HasBase(Tree(in)))
    => (err = ErrUnknownType /\ out = <<>>)

\* A create request with the whole path and an env, but no ContainerId, was
\* refused.
C5_MatchingButUnsigned ==
  /\ Called("ScrubBridgeCreate")
  /\ seenOuter
  /\ in = CreateDoc(TRUE, FALSE, "env", 1, "none")
  /\ HasEnv(Tree(in))
  /\ err = ErrUnknownType

\* C6: with the flag on, for every envelope with a keyword and the base
\* signature, ScrubBridgeCreate returns ErrUnknownType whenever one of
\* ContainerConfig, OciSpecification, process is absent or no object, or the
\* process object has no env; it succeeds only with the env at that path
\* replaced.
C6_FailClosed ==
  (/\ Called("ScrubBridgeCreate")
   /\ seenOuter /\ hasKeywords(in)
   /\ Decodes(in) /\ HasBase(Tree(in)))
    => /\ ~HasEnv(Tree(in)) => (err = ErrUnknownType /\ out = <<>>)
       /\ err = "nil" => /\ HasEnv(Tree(in))
                         /\ Valid(out)
                         /\ HasEnv(Tree(out))
                         /\ ProcessOf(Tree(out)).m[envName] = SentinelEnv

\* A create request whose path resolves to a process object without env was
\* refused.
C6_NoEnvRefused ==
  /\ Called("ScrubBridgeCreate")
  /\ seenOuter /\ hasKeywords(in)
  /\ Decodes(in) /\ HasBase(Tree(in))
  /\ HasProcess(Tree(in)) /\ ~HasEnv(Tree(in))
  /\ err = ErrUnknownType

\* C7: an operation that returns an error returns no content with it.
C7_NoContentOnError ==
  (pc = "returned" /\ err # "nil") => out = <<>>

\* The nested ScrubProcessParameters of an exec request failed to decode.
C7_NestedDecodeFailed ==
  /\ Called("ScrubBridgeExecProcess")
  /\ seenOuter
  /\ Decodes(in) /\ HasBase(Tree(in)) /\ HasParameters(Tree(in))
  /\ Carries(ParametersIn(in), 1)
  /\ err = "UnmarshalTypeError"
  /\ out = <<>>

\* C8: with the flag on, an operation given its own successful output
\* succeeds again and returns a message of the same value, the sentinel
\* still in it.
C8_Idempotent ==
  (pc = "returned" /\ again /\ prevSeen /\ seenOuter)
    => /\ err = "nil"
       /\ SameValue(out, in)
       /\ Contains(in, ScrubbedReplacement) => Contains(out, ScrubbedReplacement)

\* A redacted exec request was redacted again.
C8_RedactedTwice ==
  /\ Called("ScrubBridgeExecProcess")
  /\ again /\ prevSeen /\ seenOuter
  /\ in = prev
  /\ HasParameters(Tree(in)) /\ Redacted(ParametersIn(in))
  /\ err = "nil"
  /\ out = in

\* C9: with the flag on throughout, whenever ScrubBridgeExecProcess gets a
\* valid JSON envelope with a keyword and returns no error, the
\* Settings.ProcessParameters string it returns holds no environment entry
\* of the input, whatever the nested string is.
C9_NoEntryCarried ==
  (/\ Called("ScrubBridgeExecProcess")
   /\ seenOuter /\ seenInner
   /\ hasKeywords(in) /\ Valid(in)
   /\ err = "nil"
   /\ HasParameters(Tree(in)))
    => /\ HasParameters(Tree(out))
       /\ \A i \in 1..MaxEnv :
            Carries(ParametersIn(in), i) => ~Carries(ParametersIn(out), i)

\* C10 (as stated): a call of ScrubBridgeExecProcess that returns a
\* re-encoded envelope, for a nested string that is a JSON object with an
\* Environment object, holds a keyword and has entry 1, returns it with the
\* nested Environment redacted and the entry gone, whenever SetScrubbing runs.
C10_NeverMixes ==
  (/\ Called("ScrubBridgeExecProcess")
   /\ err = "nil" /\ out # in
   /\ HasParameters(Tree(in))
   /\ hasKeywords(ParametersIn(in)) /\ EnvironmentWritten(ParametersIn(in))
   /\ Carries(ParametersIn(in), 1))
    => /\ HasParameters(Tree(out))
       /\ SentinelWritten(ParametersIn(out))
       /\ ~Carries(ParametersIn(out), 1)

\* C10 (amended): with SetScrubbing running between the steps of a call,
\* ScrubBridgeExecProcess ends with the input unchanged (the first read saw
\* the flag off, or no keyword, or invalid JSON), or with an error and no
\* content, or with a re-encoded envelope whose nested string is either
\* redacted (the second read saw the flag on) or the input's own (the second
\* read saw the flag off, or the nested string has no keyword or is not
\* valid JSON).
C10_Outcomes ==
  Called("ScrubBridgeExecProcess")
    => \/ /\ err = "nil" /\ out = in
          /\ (~seenOuter \/ ~hasKeywords(in) \/ ~Valid(in))
       \/ err # "nil" /\ out = <<>>
       \/ /\ err = "nil" /\ seenOuter
          /\ Decodes(in) /\ HasParameters(Tree(in))
          /\ Valid(out) /\ HasParameters(Tree(out))
          /\ \/ seenInner /\ SentinelWritten(ParametersIn(out))
             \/ /\ ParametersIn(out) = ParametersIn(in)
                /\ \/ ~seenInner
                   \/ ~hasKeywords(ParametersIn(in))
                   \/ ~Valid(ParametersIn(in))

\* The flag went off between the two reads of a call, and the envelope came
\* back re-encoded with entry 1 in its nested string.
C10_FlagChangedBetweenReads ==
  /\ Called("ScrubBridgeExecProcess")
  /\ seenOuter /\ ~seenInner
  /\ err = "nil" /\ out # in
  /\ HasParameters(Tree(out))
  /\ ParametersIn(out) = ParametersIn(in)
  /\ Carries(ParametersIn(out), 1)

====
